---- MODULE Spec2Model ----
(***************************************************************************)
(* Validator-set lifecycle engine of the stake keeper: the validator       *)
(* store and its indices, the bonded / unbonding / unbonded transitions,   *)
(* the unbonding queue and ApplyAndReturnValidatorSetUpdates.              *)
(*                                                                         *)
(* Addresses are small naturals ordered like the address bytes; block time *)
(* is a natural that grows with every block header.  Tokens and shares are *)
(* whole numbers: the token and share mutators are offered only the        *)
(* amounts whose conversion is exact.                                      *)
(* An iterator ranges over the keys its keyspace held when it was opened.  *)
(* A block is begin-of-block drain, at most one staking transaction (two   *)
(* on the busy chains), then the end-of-block diff.                        *)
(* The cross-chain channel registry is a table of the process beside the   *)
(* keeper: its calls change nothing of the chain.  Channel names are       *)
(* naturals, registered in the order 1, 2, 3, ...                          *)
(***************************************************************************)
EXTENDS Naturals, Integers, Sequences, FiniteSets, TLC

\* ---------------------------------------------------------------- bounds
MaxTime == 3            \* last block time explored
MaxBlockInterval == 2   \* longest time between two block headers
MaxTokens == 2          \* largest token and share balance of one validator
LongMaxTime == 4        \* last block time of the long-unbonding chain
BusyTxs == 2            \* transactions per block of the busy chain
PenaltyMaxTime == 2     \* last block time of the chain under penalties
MaxRate == 2            \* largest commission rate a validator may set
MaxChangeRate == 1      \* largest change of the commission rate in one update
CommissionUpdateInterval == 2   \* shortest time between two commission updates
MaxNames == 258         \* distinct channel names offered for registration

ChannelIDBits == 8      \* type ChannelID uint8

\* ------------------------------------------------------- chain parameters
MaxValidators == 2        \* params.MaxValidators
UnbondingTime == 2        \* params.UnbondingTime
LongUnbondingTime == 3    \* params.UnbondingTime of the long-unbonding chain

Operators == {1, 2, 3}          \* operator addresses
SideChainAddrs == {3}           \* addresses a side-chain validator may be created at

Unbonded == "Unbonded"
Unbonding == "Unbonding"
Bonded == "Bonded"

NoPanic == "none"

VARIABLES
    validators,          \* operator -> validator record        (ValidatorsKey)
    consAddrIndex,       \* consensus identity -> operator      (ValidatorsByConsAddrKey)
    powerIndex,          \* set of power-index keys             (ValidatorsByPowerIndexKey)
    lastValidatorPower,  \* operator -> power of the last diff  (LastValidatorPowerKey)
    lastTotalPower,      \* LastTotalPowerKey
    validatorQueue,      \* maturity time -> timeslice          (ValidatorQueueKey)
    pool,                \* pool.BondedTokens
    params,              \* k.GetParams(ctx)
    intraTxCounter,      \* IntraTxCounterKey
    blockHeight,         \* ctx.BlockHeight()
    blockTime,           \* ctx.BlockHeader().Time
    txDelivered,         \* transactions the open block has delivered
    blockTxs,            \* transactions a block carries at most
    lastCall,            \* the operation that ran last
    newVals,             \* validators returned by the last diff
    updates,             \* update list returned by the last diff
    hookLog,             \* hook notifications of the last operation
    panicked,            \* message of the abort, or NoPanic
    queryTime,           \* currTime handed to the last GetAllMatureValidatorQueue
    matureValsAddrs,     \* list the last GetAllMatureValidatorQueue returned
    consensusSet,        \* operator -> power, as the consensus engine holds it
    nameToChannelID,     \* CrossChainChannelHub.nameToChannelID
    channelIDToName,     \* CrossChainChannelHub.channelIDToName
    nextChannelID,       \* CrossChainChannelHub.nextChannelID
    channelName,         \* name handed to the last call of the channel registry
    channelID,           \* ChannelID the last GetChannelID returned
    channelErr           \* error the last call of the channel registry returned

vars == <<validators, consAddrIndex, powerIndex, lastValidatorPower, lastTotalPower,
          validatorQueue, pool, params, intraTxCounter, blockHeight, blockTime, txDelivered,
          blockTxs, lastCall, newVals, updates, hookLog, panicked,
          queryTime, matureValsAddrs, consensusSet,
          nameToChannelID, channelIDToName, nextChannelID,
          channelName, channelID, channelErr>>

\* the state of the keeper and of its chain
chainVars == <<validators, consAddrIndex, powerIndex, lastValidatorPower, lastTotalPower,
               validatorQueue, pool, params, intraTxCounter, blockHeight, blockTime,
               txDelivered, blockTxs, newVals, updates, hookLog, panicked,
               queryTime, matureValsAddrs, consensusSet>>

\* the state of the channel registry and what its last call returned
hubVars == <<nameToChannelID, channelIDToName, nextChannelID,
             channelName, channelID, channelErr>>

\* ------------------------------------------------------------ map helpers
Put(f, k, v) == [x \in (DOMAIN f) \cup {k} |-> IF x = k THEN v ELSE f[x]]
Del(f, k) == [x \in (DOMAIN f) \ {k} |-> f[x]]
EmptyMap == [x \in {} |-> 0]

RECURSIVE SumOver(_, _)
SumOver(f, S) ==
    IF S = {} THEN 0
    ELSE LET x == CHOOSE y \in S : TRUE IN f[x] + SumOver(f, S \ {x})

RECURSIVE SortAscending(_)
SortAscending(S) ==
    IF S = {} THEN <<>>
    ELSE LET m == CHOOSE x \in S : \A y \in S : x <= y
         IN <<m>> \o SortAscending(S \ {m})

Range(seq) == {seq[i] : i \in 1..Len(seq)}

\* ------------------------------------------------------------ the store
\* The keeper's keyspaces together with what one call accumulates (hooks, abort).
Store == [validators |-> validators, consAddrIndex |-> consAddrIndex,
          powerIndex |-> powerIndex, lastValidatorPower |-> lastValidatorPower,
          lastTotalPower |-> lastTotalPower, validatorQueue |-> validatorQueue,
          pool |-> pool, params |-> params, intraTxCounter |-> intraTxCounter,
          hooks |-> <<>>, panic |-> NoPanic]

Ctx == [height |-> blockHeight, time |-> blockTime]

Panic(s, msg) == IF s.panic = NoPanic THEN [s EXCEPT !.panic = msg] ELSE s

\* A side-chain validator has a side-chain consensus address and no ConsPubKey.
IsSideChainValidator(v) == v.sideChain
\* every validator taken to have a consensus public key
HasConsPubKey_Always(v) == TRUE

HasConsPubKey(v) == ~v.sideChain

\* the commission a validator is created with
InitialCommission ==
    [rate |-> 0, maxRate |-> MaxRate, maxChangeRate |-> MaxChangeRate, updateTime |-> 0]

NewValidator(sideChain) ==
    [status |-> Unbonded, jailed |-> FALSE, tokens |-> 0, shares |-> 0,
     bondHeight |-> 0, counter |-> 0, unbondingMinTime |-> 0, unbondingHeight |-> 0,
     sideChain |-> sideChain, commission |-> InitialCommission]

GetValidatorFound(s, op) == op \in DOMAIN s.validators

\* key of the power index: power, bond height, intra-tx counter, operator
GetValidatorsByPowerIndexKey(op, v) == <<v.tokens, v.bondHeight, v.counter, op>>

\* a is met before b by the reverse iterator of the power index
KeyBefore(a, b) ==
    \/ a[1] > b[1]
    \/ a[1] = b[1] /\ a[2] < b[2]
    \/ a[1] = b[1] /\ a[2] = b[2] /\ a[3] < b[3]
    \/ a[1] = b[1] /\ a[2] = b[2] /\ a[3] = b[3] /\ a[4] < b[4]

\* the index walked from its first key to its last
RECURSIVE ReversePrefixIterator_Forward(_)
ReversePrefixIterator_Forward(idx) ==
    IF idx = {} THEN <<>>
    ELSE LET k == CHOOSE x \in idx : \A y \in idx \ {x} : KeyBefore(y, x)
         IN <<k>> \o ReversePrefixIterator_Forward(idx \ {k})

RECURSIVE ReversePrefixIterator(_)
ReversePrefixIterator(idx) ==
    IF idx = {} THEN <<>>
    ELSE LET k == CHOOSE x \in idx : \A y \in idx \ {x} : KeyBefore(x, y)
         IN <<k>> \o ReversePrefixIterator(idx \ {k})

SetValidator(s, op, v) == [s EXCEPT !.validators = Put(@, op, v)]

\* the index entry not written
SetValidatorByConsAddr_Forgotten(s, op) == s

SetValidatorByConsAddr(s, op) == [s EXCEPT !.consAddrIndex = Put(@, op, op)]

\* GetValidatorByConsAddr: the operator stored under the consensus address,
\* then the record of that operator
GetValidatorByConsAddrFound(s, consAddr) ==
    /\ consAddr \in DOMAIN s.consAddrIndex
    /\ GetValidatorFound(s, s.consAddrIndex[consAddr])

GetValidatorByConsAddr(s, consAddr) == s.validators[s.consAddrIndex[consAddr]]

SetValidatorByPowerIndex(s, op, v) ==
    IF v.jailed THEN s
    ELSE [s EXCEPT !.powerIndex = @ \cup {GetValidatorsByPowerIndexKey(op, v)}]

DeleteValidatorByPowerIndex(s, op, v) ==
    [s EXCEPT !.powerIndex = @ \ {GetValidatorsByPowerIndexKey(op, v)}]

SetNewValidatorByPowerIndex(s, op, v) ==
    [s EXCEPT !.powerIndex = @ \cup {GetValidatorsByPowerIndexKey(op, v)}]

\* the power-index entry left behind
RemoveValidator_KeepsIndex(s, op) ==
    IF ~GetValidatorFound(s, op) THEN s
    ELSE [s EXCEPT !.validators = Del(@, op), !.consAddrIndex = Del(@, op)]

RemoveValidator(s, op) ==
    IF ~GetValidatorFound(s, op) THEN s
    ELSE LET validator == s.validators[op]
         IN [s EXCEPT !.validators = Del(@, op),
                      !.consAddrIndex = Del(@, op),
                      !.powerIndex = @ \ {GetValidatorsByPowerIndexKey(op, validator)}]

SetLastValidatorPower(s, op, power) ==
    [s EXCEPT !.lastValidatorPower = Put(@, op, power)]

DeleteLastValidatorPower(s, op) == [s EXCEPT !.lastValidatorPower = Del(@, op)]

SetLastTotalPower(s, power) == [s EXCEPT !.lastTotalPower = power]

getLastValidatorsByAddr(s) == s.lastValidatorPower

\* A range over a Go map meets the keys in an order the runtime picks anew
\* each time: MapRange(m) are the enumerations it may produce of the map m.
Enumerations(S) ==
    {seq \in [1..Cardinality(S) -> S] : \A x \in S : \E i \in DOMAIN seq : seq[i] = x}

MapRange(m) == Enumerations(DOMAIN m)

\* sort.SliceStable with less = (bytes.Compare(a, b) == -1): each element is
\* put before the first element already placed that is greater than it
InsertStable(sorted, x) ==
    LET greater == {i \in 1..Len(sorted) : x < sorted[i]}
        at == IF greater = {} THEN Len(sorted) + 1
              ELSE CHOOSE i \in greater : \A j \in greater : i <= j
    IN SubSeq(sorted, 1, at - 1) \o <<x>> \o SubSeq(sorted, at, Len(sorted))

RECURSIVE SliceStable(_, _)
SliceStable(slice, i) ==
    IF i = 0 THEN <<>>
    ELSE InsertStable(SliceStable(slice, i - 1), slice[i])

\* the enumerated keys returned as they came
sortNoLongerBonded_Unsorted(last, range) == range

\* the comparison of the sort turned around
sortNoLongerBonded_Descending(last, range) ==
    LET sorted == SliceStable(range, Len(range))
    IN [i \in 1..Len(sorted) |-> sorted[Len(sorted) + 1 - i]]

\* range is the enumeration the loop over the map last has produced
sortNoLongerBonded(last, range) == SliceStable(range, Len(range))

\* -------------------------------------------------- validator arithmetic
\* Validator.UpdateStatus: tokens of a validator move between the loose and
\* the bonded side of the pool when its status crosses the Bonded boundary.
UpdateStatusPool(v, p, newStatus) ==
    IF v.status = newStatus THEN p
    ELSE IF v.status = Bonded THEN p - v.tokens
    ELSE IF newStatus = Bonded THEN p + v.tokens
    ELSE p

UpdateStatus(v, newStatus) == [v EXCEPT !.status = newStatus]

BondedTokens(v) == IF v.status = Bonded THEN v.tokens ELSE 0

\* shares issued for amt tokens at the validator's exchange rate
IssuedShares(v, amt) == IF v.shares = 0 THEN amt ELSE (amt * v.shares) \div v.tokens

\* tokens paid out for sh shares at the validator's exchange rate
IssuedTokens(v, sh) == IF v.shares = 0 THEN sh ELSE (sh * v.tokens) \div v.shares

\* ------------------------------------------------------ lifecycle hooks
\* The log holds every call the combined staking hooks receive from the
\* keeper, followed by the calls they make in turn: to distribution, then to
\* slashing; the side-chain hooks have empty bodies.
OnValidatorBonded(s, op) ==
    [s EXCEPT !.hooks = @ \o << <<"hooks", "bonded", op>>,
                               <<"distr", "bonded", op>>, <<"slashing", "bonded", op>> >>]

OnValidatorBeginUnbonding(s, op) ==
    [s EXCEPT !.hooks = @ \o << <<"hooks", "beginUnbonding", op>>,
                               <<"distr", "beginUnbonding", op>>,
                               <<"slashing", "beginUnbonding", op>> >>]

OnSideChainValidatorBonded(s, op) ==
    [s EXCEPT !.hooks = @ \o << <<"hooks", "sideChainBonded", op>> >>]

OnSideChainValidatorBeginUnbonding(s, op) ==
    [s EXCEPT !.hooks = @ \o << <<"hooks", "sideChainBeginUnbonding", op>> >>]

\* ------------------------------------------------------ unbonding queue
GetValidatorQueueTimeSlice(s, timestamp) ==
    IF timestamp \in DOMAIN s.validatorQueue THEN s.validatorQueue[timestamp] ELSE <<>>

SetValidatorQueueTimeSlice(s, timestamp, keys) ==
    [s EXCEPT !.validatorQueue = Put(@, timestamp, keys)]

\* the validator put in no timeslice
InsertValidatorQueue_Skipped(s, op, val) == s

\* the timeslice replaced by the one operator
InsertValidatorQueue_Overwrites(s, op, val) ==
    SetValidatorQueueTimeSlice(s, val.unbondingMinTime, <<op>>)

InsertValidatorQueue(s, op, val) ==
    LET timeSlice == GetValidatorQueueTimeSlice(s, val.unbondingMinTime)
    IN IF Len(timeSlice) = 0
       THEN SetValidatorQueueTimeSlice(s, val.unbondingMinTime, <<op>>)
       ELSE SetValidatorQueueTimeSlice(s, val.unbondingMinTime, Append(timeSlice, op))

\* the timeslice keyed by endTime itself left out
ValidatorQueueIterator_ExclusiveEnd(s, endTime) ==
    SortAscending({t \in DOMAIN s.validatorQueue : t < endTime})

\* the timeslice keys from time 0 up to and including endTime, ascending
ValidatorQueueIterator(s, endTime) ==
    SortAscending({t \in DOMAIN s.validatorQueue : t <= endTime})

\* the bonded hook of the main chain called for every validator
bondValidator_SameHookForAll(s, ctx, op, validator) ==
    LET s1 == DeleteValidatorByPowerIndex(s, op, validator)
        v1 == [validator EXCEPT !.bondHeight = ctx.height]
        v2 == UpdateStatus(v1, Bonded)
        s2 == [s1 EXCEPT !.pool = UpdateStatusPool(v1, @, Bonded)]
        s3 == SetValidator(s2, op, v2)
        s4 == SetValidatorByPowerIndex(s3, op, v2)
    IN [s |-> OnValidatorBonded(s4, op), v |-> v2]

\* ---------------------------------------------------- state transitions
\* Each transition returns the store and the validator it wrote.
bondValidator(s, ctx, op, validator) ==
    LET s1 == DeleteValidatorByPowerIndex(s, op, validator)
        v1 == [validator EXCEPT !.bondHeight = ctx.height]
        v2 == UpdateStatus(v1, Bonded)
        s2 == [s1 EXCEPT !.pool = UpdateStatusPool(v1, @, Bonded)]
        s3 == SetValidator(s2, op, v2)
        s4 == SetValidatorByPowerIndex(s3, op, v2)
        s5 == IF IsSideChainValidator(v2) THEN OnSideChainValidatorBonded(s4, op)
              ELSE OnValidatorBonded(s4, op)
    IN [s |-> s5, v |-> v2]

beginUnbondingValidator(s, ctx, op, validator) ==
    LET s1 == DeleteValidatorByPowerIndex(s, op, validator)
    IN IF validator.status # Bonded
       THEN [s |-> Panic(s1, "should not already be unbonded or unbonding"), v |-> validator]
       ELSE LET v1 == UpdateStatus(validator, Unbonding)
                s2 == [s1 EXCEPT !.pool = UpdateStatusPool(validator, @, Unbonding)]
                v2 == [v1 EXCEPT !.unbondingMinTime = ctx.time + s.params.unbondingTime,
                                 !.unbondingHeight = ctx.height]
                s3 == SetValidator(s2, op, v2)
                s4 == SetValidatorByPowerIndex(s3, op, v2)
                s5 == InsertValidatorQueue(s4, op, v2)
                s6 == IF IsSideChainValidator(v2)
                      THEN OnSideChainValidatorBeginUnbonding(s5, op)
                      ELSE OnValidatorBeginUnbonding(s5, op)
            IN [s |-> s6, v |-> v2]

completeUnbondingValidator(s, op, validator) ==
    LET v1 == UpdateStatus(validator, Unbonded)
        s1 == [s EXCEPT !.pool = UpdateStatusPool(validator, @, Unbonded)]
    IN [s |-> SetValidator(s1, op, v1), v |-> v1]

\* the status left to be checked by beginUnbondingValidator
bondedToUnbonding_Unchecked(s, ctx, op, validator) ==
    beginUnbondingValidator(s, ctx, op, validator)

\* the unbonding completed at once, without the unbonding period
bondedToUnbonding_CompletesAtOnce(s, ctx, op, validator) ==
    completeUnbondingValidator(s, op, validator)

\* the transition skipped
bondedToUnbonding_Skipped(s, ctx, op, validator) == [s |-> s, v |-> validator]

bondedToUnbonding(s, ctx, op, validator) ==
    IF validator.status # Bonded
    THEN [s |-> Panic(s, "bad state transition bondedToUnbonding"), v |-> validator]
    ELSE beginUnbondingValidator(s, ctx, op, validator)

unbondingToBonded(s, ctx, op, validator) ==
    IF validator.status # Unbonding
    THEN [s |-> Panic(s, "bad state transition unbondingToBonded"), v |-> validator]
    ELSE bondValidator(s, ctx, op, validator)

unbondedToBonded(s, ctx, op, validator) ==
    IF validator.status # Unbonded
    THEN [s |-> Panic(s, "bad state transition unbondedToBonded"), v |-> validator]
    ELSE bondValidator(s, ctx, op, validator)

unbondingToUnbonded(s, op, validator) ==
    IF validator.status # Unbonding
    THEN [s |-> Panic(s, "bad state transition unbondingToBonded"), v |-> validator]
    ELSE completeUnbondingValidator(s, op, validator)

\* the jailed validator left in the power index
jailValidator_KeepsIndex(s, op, validator) ==
    IF validator.jailed THEN Panic(s, "cannot jail already jailed validator")
    ELSE SetValidator(s, op, [validator EXCEPT !.jailed = TRUE])

jailValidator(s, op, validator) ==
    IF validator.jailed THEN Panic(s, "cannot jail already jailed validator")
    ELSE LET v1 == [validator EXCEPT !.jailed = TRUE]
         IN DeleteValidatorByPowerIndex(SetValidator(s, op, v1), op, v1)

unjailValidator(s, op, validator) ==
    IF ~validator.jailed THEN Panic(s, "cannot unjail already unjailed validator")
    ELSE LET v1 == [validator EXCEPT !.jailed = FALSE]
         IN SetValidatorByPowerIndex(SetValidator(s, op, v1), op, v1)

\* ------------------------------------------ ApplyAndReturnValidatorSetUpdates
ABCIValidatorUpdate(op, v) == [op |-> op, power |-> BondedTokens(v)]

ABCIValidatorUpdateZero(op) == [op |-> op, power |-> 0]

\* "validator still in the validator set, so delete from the copy"
DeleteFromCopy_Kept(last, operator) == last

DeleteFromCopy(last, operator) == Del(last, operator)

\* every candidate counted as changed
PowerChanged_Always(last, operator, newPower) == TRUE

\* "update the validator set if power has changed"
PowerChanged(last, operator, newPower) ==
    operator \notin DOMAIN last \/ last[operator] # newPower

\* One pass of the loop over the power index, for the entry `key`.
DiffVisit(d, ctx, key) ==
    LET operator == key[4]
        s == d.s
    IN IF ~GetValidatorFound(s, operator)
       THEN [d EXCEPT !.s = Panic(s, "validator record not found"), !.stop = TRUE]
       ELSE LET validator == s.validators[operator]
            IN IF validator.jailed
               THEN [d EXCEPT !.s = Panic(s, "should never retrieve a jailed validator from the power store"),
                              !.stop = TRUE]
               ELSE IF validator.tokens = 0
               THEN [d EXCEPT !.stop = TRUE]
               ELSE LET r == CASE validator.status = Unbonded ->
                                      unbondedToBonded(s, ctx, operator, validator)
                               [] validator.status = Unbonding ->
                                      unbondingToBonded(s, ctx, operator, validator)
                               [] OTHER -> [s |-> s, v |-> validator]
                        newPower == BondedTokens(r.v)
                        changed == PowerChanged(d.last, operator, newPower)
                        s1 == IF changed THEN SetLastValidatorPower(r.s, operator, newPower)
                              ELSE r.s
                    IN [d EXCEPT !.s = s1,
                                 !.newVals = Append(@, operator),
                                 !.updates = IF changed /\ HasConsPubKey(r.v)
                                             THEN Append(@, ABCIValidatorUpdate(operator, r.v))
                                             ELSE @,
                                 !.last = DeleteFromCopy(@, operator),
                                 !.count = @ + 1,
                                 !.totalPower = @ + newPower]

\* the loop with its cap off by one
RECURSIVE DiffLoop_OffByOne(_, _, _, _)
DiffLoop_OffByOne(d, ctx, iterator, i) ==
    IF i > Len(iterator) \/ ~(d.count <= d.s.params.maxValidators) \/ d.stop THEN d
    ELSE DiffLoop_OffByOne(DiffVisit(d, ctx, iterator[i]), ctx, iterator, i + 1)

RECURSIVE DiffLoop(_, _, _, _)
DiffLoop(d, ctx, iterator, i) ==
    IF i > Len(iterator) \/ ~(d.count < d.s.params.maxValidators) \/ d.stop THEN d
    ELSE DiffLoop(DiffVisit(d, ctx, iterator[i]), ctx, iterator, i + 1)

\* no zero-power update emitted for the validator that leaves the bonded set
DiffUnbond_NoRemovalSent(d, ctx, operator) ==
    LET s == d.s
    IN IF s.panic # NoPanic THEN d
       ELSE IF ~GetValidatorFound(s, operator)
       THEN [d EXCEPT !.s = Panic(s, "validator record not found")]
       ELSE LET validator == s.validators[operator]
                r == bondedToUnbonding(s, ctx, operator, validator)
            IN IF r.s.panic # NoPanic THEN [d EXCEPT !.s = r.s]
               ELSE LET s1 == IF validator.tokens = 0 THEN RemoveValidator(r.s, operator)
                              ELSE r.s
                    IN [d EXCEPT !.s = DeleteLastValidatorPower(s1, operator)]

\* One pass of the loop over the no-longer-bonded validators.
DiffUnbond(d, ctx, operator) ==
    LET s == d.s
    IN IF s.panic # NoPanic THEN d
       ELSE IF ~GetValidatorFound(s, operator)
       THEN [d EXCEPT !.s = Panic(s, "validator record not found")]
       ELSE LET validator == s.validators[operator]
                r == bondedToUnbonding(s, ctx, operator, validator)
            IN IF r.s.panic # NoPanic THEN [d EXCEPT !.s = r.s]
               ELSE LET s1 == IF validator.tokens = 0 THEN RemoveValidator(r.s, operator)
                              ELSE r.s
                        s2 == DeleteLastValidatorPower(s1, operator)
                    IN [d EXCEPT !.s = s2,
                                 !.updates = IF HasConsPubKey(validator)
                                             THEN Append(@, ABCIValidatorUpdateZero(operator))
                                             ELSE @]

RECURSIVE DiffUnbondLoop(_, _, _, _)
DiffUnbondLoop(d, ctx, noLongerBonded, i) ==
    IF i > Len(noLongerBonded) THEN d
    ELSE DiffUnbondLoop(DiffUnbond(d, ctx, noLongerBonded[i]), ctx, noLongerBonded, i + 1)

\* the diff up to the end of the loop over the power index
DiffBonded(s, ctx) ==
    LET d0 == [s |-> s, last |-> getLastValidatorsByAddr(s), newVals |-> <<>>,
               updates |-> <<>>, count |-> 0, totalPower |-> 0, stop |-> FALSE]
    IN DiffLoop(d0, ctx, ReversePrefixIterator(s.powerIndex), 1)

\* the total power written whether or not there are updates
ApplyAndReturnValidatorSetUpdates_AlwaysWrites(s, ctx, range) ==
    LET d1 == DiffBonded(s, ctx)
        d2 == IF d1.s.panic # NoPanic THEN d1
              ELSE DiffUnbondLoop(d1, ctx, sortNoLongerBonded(d1.last, range), 1)
    IN IF d2.s.panic = NoPanic
       THEN [d2 EXCEPT !.s = SetLastTotalPower(@, d2.totalPower)]
       ELSE d2

\* range is the enumeration of the remaining operators that
\* sortNoLongerBonded gets from the runtime, one of MapRange(last)
ApplyAndReturnValidatorSetUpdates(s, ctx, range) ==
    LET d1 == DiffBonded(s, ctx)
        d2 == IF d1.s.panic # NoPanic THEN d1
              ELSE DiffUnbondLoop(d1, ctx, sortNoLongerBonded(d1.last, range), 1)
    IN IF d2.s.panic = NoPanic /\ Len(d2.updates) > 0
       THEN [d2 EXCEPT !.s = SetLastTotalPower(@, d2.totalPower)]
       ELSE d2

\* GetBondedValidatorsByPower: the Bonded validators met by the reverse
\* iterator of the power index, at most maxValidators of them
RECURSIVE BondedByPowerLoop(_, _, _, _)
BondedByPowerLoop(s, iterator, n, found) ==
    IF n > Len(iterator) \/ Len(found) >= s.params.maxValidators
    THEN [validators |-> found, panic |-> NoPanic]
    ELSE LET address == iterator[n][4]
         IN IF ~GetValidatorFound(s, address)
            THEN [validators |-> found, panic |-> "validator record not found"]
            ELSE IF s.validators[address].status = Bonded
            THEN BondedByPowerLoop(s, iterator, n + 1, Append(found, address))
            ELSE BondedByPowerLoop(s, iterator, n + 1, found)

GetBondedValidatorsByPower(s) ==
    BondedByPowerLoop(s, ReversePrefixIterator(s.powerIndex), 1, <<>>)

\* --------------------------------------------- UnbondAllMatureValidatorQueue
\* the status of the queued validator not looked at
DrainVisit_NoStatusCheck(s, valAddr) ==
    IF s.panic # NoPanic THEN s
    ELSE IF ~GetValidatorFound(s, valAddr) THEN s
    ELSE LET val == s.validators[valAddr]
             r == unbondingToUnbonded(s, valAddr, val)
         IN IF val.shares = 0 THEN RemoveValidator(r.s, valAddr) ELSE r.s

DrainVisit(s, valAddr) ==
    IF s.panic # NoPanic THEN s
    ELSE IF ~GetValidatorFound(s, valAddr) \/ s.validators[valAddr].status # Unbonding THEN s
    ELSE LET val == s.validators[valAddr]
             r == unbondingToUnbonded(s, valAddr, val)
         IN IF val.shares = 0 THEN RemoveValidator(r.s, valAddr) ELSE r.s

\* the rest of the timeslice given up at the first operator that is skipped
RECURSIVE DrainTimeslice_BreakOnSkip(_, _, _)
DrainTimeslice_BreakOnSkip(s, timeslice, i) ==
    IF i > Len(timeslice) THEN s
    ELSE IF ~GetValidatorFound(s, timeslice[i])
            \/ s.validators[timeslice[i]].status # Unbonding THEN s
    ELSE DrainTimeslice_BreakOnSkip(DrainVisit(s, timeslice[i]), timeslice, i + 1)

RECURSIVE DrainTimeslice(_, _, _)
DrainTimeslice(s, timeslice, i) ==
    IF i > Len(timeslice) THEN s
    ELSE DrainTimeslice(DrainVisit(s, timeslice[i]), timeslice, i + 1)

RECURSIVE DrainLoop(_, _, _)
DrainLoop(s, iterator, i) ==
    IF i > Len(iterator) THEN s
    ELSE LET key == iterator[i]
             s1 == DrainTimeslice(s, s.validatorQueue[key], 1)
         IN DrainLoop([s1 EXCEPT !.validatorQueue = Del(@, key)], iterator, i + 1)

UnbondAllMatureValidatorQueue(s, ctx) ==
    DrainLoop(s, ValidatorQueueIterator(s, ctx.time), 1)

\* ------------------------------------------------ GetAllMatureValidatorQueue
RECURSIVE MatureLoop(_, _, _, _)
MatureLoop(s, iterator, i, matureAddrs) ==
    IF i > Len(iterator) THEN matureAddrs
    ELSE MatureLoop(s, iterator, i + 1, matureAddrs \o s.validatorQueue[iterator[i]])

\* The iterator is opened up to the time of the block header, whatever
\* currTime is; the loop reads the timeslices and deletes none.
GetAllMatureValidatorQueue(s, ctx, currTime) ==
    [s |-> s,
     matureValsAddrs |-> MatureLoop(s, ValidatorQueueIterator(s, ctx.time), 1, <<>>)]

\* -------------------------------------------------------- token mutators
\* the entry of the old power left in the index
AddValidatorTokensAndShares_KeepsStale(s, op, validator, tokensToAdd) ==
    LET v1 == [validator EXCEPT !.tokens = @ + tokensToAdd,
                                !.shares = @ + IssuedShares(validator, tokensToAdd)]
        p1 == IF validator.status = Bonded THEN s.pool + tokensToAdd ELSE s.pool
        counter == s.intraTxCounter
        v2 == [v1 EXCEPT !.counter = counter]
        s2 == [s EXCEPT !.intraTxCounter = counter + 1]
        s3 == SetValidator(s2, op, v2)
        s4 == [s3 EXCEPT !.pool = p1]
    IN SetValidatorByPowerIndex(s4, op, v2)

AddValidatorTokensAndShares(s, op, validator, tokensToAdd) ==
    LET s1 == DeleteValidatorByPowerIndex(s, op, validator)
        v1 == [validator EXCEPT !.tokens = @ + tokensToAdd,
                                !.shares = @ + IssuedShares(validator, tokensToAdd)]
        p1 == IF validator.status = Bonded THEN s.pool + tokensToAdd ELSE s.pool
        counter == s.intraTxCounter
        v2 == [v1 EXCEPT !.counter = counter]
        s2 == [s1 EXCEPT !.intraTxCounter = counter + 1]
        s3 == SetValidator(s2, op, v2)
        s4 == [s3 EXCEPT !.pool = p1]
    IN SetValidatorByPowerIndex(s4, op, v2)

RemoveValidatorTokensAndShares(s, op, validator, sharesToRemove) ==
    LET s1 == DeleteValidatorByPowerIndex(s, op, validator)
        removedTokens == IssuedTokens(validator, sharesToRemove)
        v1 == [validator EXCEPT !.tokens = @ - removedTokens,
                                !.shares = @ - sharesToRemove]
        p1 == IF validator.status = Bonded THEN s.pool - removedTokens ELSE s.pool
        s2 == SetValidator(s1, op, v1)
        s3 == [s2 EXCEPT !.pool = p1]
    IN SetValidatorByPowerIndex(s3, op, v1)

\* the pool not written back
RemoveValidatorTokens_PoolNotSet(s, op, validator, tokensToRemove) ==
    LET s1 == DeleteValidatorByPowerIndex(s, op, validator)
        v1 == [validator EXCEPT !.tokens = @ - tokensToRemove]
        s2 == SetValidator(s1, op, v1)
    IN SetValidatorByPowerIndex(s2, op, v1)

RemoveValidatorTokens(s, op, validator, tokensToRemove) ==
    LET s1 == DeleteValidatorByPowerIndex(s, op, validator)
        v1 == [validator EXCEPT !.tokens = @ - tokensToRemove]
        p1 == IF validator.status = Bonded THEN s.pool - tokensToRemove ELSE s.pool
        s2 == SetValidator(s1, op, v1)
        s3 == [s2 EXCEPT !.pool = p1]
    IN SetValidatorByPowerIndex(s3, op, v1)

\* ------------------------------------------------------------- commission
Nil == "nil"

\* Commission.ValidateNewRate: the update comes too soon after the last one,
\* or the rate is outside its bounds, or it moves by more than the allowed
\* change
ValidateNewRate(commission, newRate, headerTime) ==
    IF headerTime - commission.updateTime < CommissionUpdateInterval
    THEN "ErrCommissionUpdateTime"
    ELSE IF newRate < 0 THEN "ErrCommissionNegative"
    ELSE IF newRate > commission.maxRate THEN "ErrCommissionGTMaxRate"
    ELSE IF newRate - commission.rate > commission.maxChangeRate
            \/ commission.rate - newRate > commission.maxChangeRate
    THEN "ErrCommissionGTMaxChangeRate"
    ELSE Nil

\* the new rate taken whatever the validation says
UpdateValidatorCommission_IgnoresError(s, ctx, validator, newRate) ==
    [s |-> s,
     commission |-> [validator.commission EXCEPT !.rate = newRate, !.updateTime = ctx.time],
     err |-> Nil]

\* The store goes through the call as it came: the call reads the validator
\* handed to it and writes nothing.
UpdateValidatorCommission(s, ctx, validator, newRate) ==
    LET commission == validator.commission
        headerTime == ctx.time
        err == ValidateNewRate(commission, newRate, headerTime)
    IN IF err # Nil
       THEN [s |-> s, commission |-> commission, err |-> err]
       ELSE [s |-> s,
             commission |-> [commission EXCEPT !.rate = newRate, !.updateTime = headerTime],
             err |-> Nil]

\* ------------------------------------------------ cross-chain channel hub
\* Channel names are the naturals from 1; NoName is the empty string.
NoName == 0

CrossChainChannelHub ==
    [nameToChannelID |-> nameToChannelID, channelIDToName |-> channelIDToName,
     nextChannelID |-> nextChannelID]

newCrossChainChannelHub ==
    [nameToChannelID |-> EmptyMap, channelIDToName |-> EmptyMap, nextChannelID |-> 1]

\* nextChannelID++ on a ChannelID
IncChannelID(id) == (id + 1) % (2 ^ ChannelIDBits)

RegisterNewCrossChainChannel(hub, name) ==
    IF name \in DOMAIN hub.nameToChannelID
    THEN [hub |-> hub, err |-> "duplicated channel name"]
    ELSE [hub |-> [nameToChannelID |-> Put(hub.nameToChannelID, name, hub.nextChannelID),
                   channelIDToName |-> Put(hub.channelIDToName, hub.nextChannelID, name),
                   nextChannelID |-> IncChannelID(hub.nextChannelID)],
          err |-> Nil]

GetChannelID(hub, name) ==
    IF name \notin DOMAIN hub.nameToChannelID
    THEN [id |-> 0, err |-> "non-existing channel"]
    ELSE [id |-> hub.nameToChannelID[name], err |-> Nil]

\* ChannelID.String: a missing key of the map reads as the empty string
String(hub, id) ==
    IF id \in DOMAIN hub.channelIDToName THEN hub.channelIDToName[id] ELSE NoName

\* ---------------------------------------------------------------- actions
InitChain(maxValidators, unbondingTime, txs) ==
    /\ params = [maxValidators |-> maxValidators, unbondingTime |-> unbondingTime]
    /\ validators = EmptyMap
    /\ consAddrIndex = EmptyMap
    /\ powerIndex = {}
    /\ lastValidatorPower = EmptyMap
    /\ lastTotalPower = 0
    /\ validatorQueue = EmptyMap
    /\ pool = 0
    /\ intraTxCounter = 0
    /\ blockHeight = 0
    /\ blockTime = 0
    /\ txDelivered = 0
    /\ blockTxs = txs
    /\ lastCall = "InitChain"
    /\ newVals = <<>>
    /\ updates = <<>>
    /\ hookLog = <<>>
    /\ panicked = NoPanic
    /\ queryTime = 0
    /\ matureValsAddrs = <<>>
    /\ consensusSet = EmptyMap
    /\ nameToChannelID = newCrossChainChannelHub.nameToChannelID
    /\ channelIDToName = newCrossChainChannelHub.channelIDToName
    /\ nextChannelID = newCrossChainChannelHub.nextChannelID
    /\ channelName = NoName
    /\ channelID = 0
    /\ channelErr = Nil

Init == InitChain(MaxValidators, UnbondingTime, 1)

\* A block is open for transactions until its end-of-block diff has run.
InBlock == lastCall # "EndBlock" /\ panicked = NoPanic

\* A transaction is delivered while the block is open.
DeliverTx == InBlock /\ txDelivered < blockTxs /\ txDelivered' = txDelivered + 1

\* Writes the store a call leaves behind; an aborted call commits nothing.
CommitStore(s, call) ==
    /\ lastCall' = call
    /\ UNCHANGED hubVars
    /\ hookLog' = s.hooks
    /\ panicked' = s.panic
    /\ IF s.panic # NoPanic
       THEN UNCHANGED <<validators, consAddrIndex, powerIndex, lastValidatorPower,
                        lastTotalPower, validatorQueue, pool, intraTxCounter>>
       ELSE /\ validators' = s.validators
            /\ consAddrIndex' = s.consAddrIndex
            /\ powerIndex' = s.powerIndex
            /\ lastValidatorPower' = s.lastValidatorPower
            /\ lastTotalPower' = s.lastTotalPower
            /\ validatorQueue' = s.validatorQueue
            /\ pool' = s.pool
            /\ intraTxCounter' = s.intraTxCounter

\* The same for a call that returns no list of mature validators and hands
\* no updates to the consensus engine.
Commit(s, call) ==
    /\ CommitStore(s, call)
    /\ queryTime' = 0
    /\ matureValsAddrs' = <<>>
    /\ consensusSet' = consensusSet

\* create-validator transaction: the new record, its two indices, then the
\* self-delegation
CreateValidator ==
    /\ DeliverTx
    /\ \E op \in Operators \ DOMAIN validators : \E amt \in 1..MaxTokens :
       \E sideChain \in (IF op \in SideChainAddrs THEN BOOLEAN ELSE {FALSE}) :
          LET validator == NewValidator(sideChain)
              s1 == SetValidator(Store, op, validator)
              s2 == SetValidatorByConsAddr(s1, op)
              s3 == SetNewValidatorByPowerIndex(s2, op, validator)
          IN Commit(AddValidatorTokensAndShares(s3, op, validator, amt), "CreateValidator")
    /\ UNCHANGED <<params, blockTxs, blockHeight, blockTime, newVals, updates>>

Delegate ==
    /\ DeliverTx
    /\ \E op \in DOMAIN validators : \E amt \in 1..MaxTokens :
          LET v == validators[op]
          IN /\ v.shares = 0 \/ (v.tokens > 0 /\ (amt * v.shares) % v.tokens = 0)
             /\ v.shares + IssuedShares(v, amt) <= MaxTokens
             /\ Commit(AddValidatorTokensAndShares(Store, op, v, amt), "Delegate")
    /\ UNCHANGED <<params, blockTxs, blockHeight, blockTime, newVals, updates>>

\* unbond transaction: the shares leave the validator; a validator left
\* Unbonded without shares is removed
Undelegate ==
    /\ DeliverTx
    /\ \E op \in DOMAIN validators : \E sh \in 1..MaxTokens :
          LET v == validators[op]
              s1 == RemoveValidatorTokensAndShares(Store, op, v, sh)
              v1 == s1.validators[op]
          IN /\ sh <= v.shares
             /\ (sh * v.tokens) % v.shares = 0
             /\ Commit(IF v1.shares = 0 /\ v1.status = Unbonded
                       THEN RemoveValidator(s1, op) ELSE s1, "Undelegate")
    /\ UNCHANGED <<params, blockTxs, blockHeight, blockTime, newVals, updates>>

Slash ==
    /\ DeliverTx
    /\ \E op \in DOMAIN validators : \E amt \in 1..MaxTokens :
          /\ amt <= validators[op].tokens
          /\ Commit(RemoveValidatorTokens(Store, op, validators[op], amt), "Slash")
    /\ UNCHANGED <<params, blockTxs, blockHeight, blockTime, newVals, updates>>

Jail ==
    /\ DeliverTx
    /\ \E op \in DOMAIN validators :
          /\ ~validators[op].jailed
          /\ Commit(jailValidator(Store, op, validators[op]), "Jail")
    /\ UNCHANGED <<params, blockTxs, blockHeight, blockTime, newVals, updates>>

Unjail ==
    /\ DeliverTx
    /\ \E op \in DOMAIN validators :
          /\ validators[op].jailed
          /\ Commit(unjailValidator(Store, op, validators[op]), "Unjail")
    /\ UNCHANGED <<params, blockTxs, blockHeight, blockTime, newVals, updates>>

\* the rates an edit-validator transaction may ask for
Rates == (0 - 1)..(MaxRate + 1)

\* edit-validator transaction: the transaction is rejected on the error,
\* otherwise the validator is stored with the commission returned
EditValidator ==
    /\ DeliverTx
    /\ \E op \in DOMAIN validators : \E newRate \in Rates :
          LET validator == validators[op]
              r == UpdateValidatorCommission(Store, Ctx, validator, newRate)
          IN IF r.err # Nil THEN Commit(r.s, "EditValidator")
             ELSE Commit(SetValidator(r.s, op, [validator EXCEPT !.commission = r.commission]),
                         "EditValidator")
    /\ UNCHANGED <<params, blockTxs, blockHeight, blockTime, newVals, updates>>

\* the times a caller may hand to GetAllMatureValidatorQueue
QueryTimes == 0..(MaxTime + UnbondingTime)

\* a call of GetAllMatureValidatorQueue while the block is open
QueryMatureValidatorQueue ==
    /\ InBlock
    /\ \E currTime \in QueryTimes :
          LET r == GetAllMatureValidatorQueue(Store, Ctx, currTime)
          IN /\ CommitStore(r.s, "GetAllMatureValidatorQueue")
             /\ queryTime' = currTime
             /\ matureValsAddrs' = r.matureValsAddrs
             /\ consensusSet' = consensusSet
    /\ UNCHANGED <<params, blockTxs, blockHeight, blockTime, txDelivered, newVals, updates>>

\* the consensus engine applies an update list in the order it was emitted:
\* a non-zero power sets the entry, zero power removes it
RECURSIVE ApplyUpdates(_, _, _)
ApplyUpdates(set, list, i) ==
    IF i > Len(list) THEN set
    ELSE ApplyUpdates(IF list[i].power = 0 THEN Del(set, list[i].op)
                      ELSE Put(set, list[i].op, list[i].power), list, i + 1)

\* the response of the end of the block: the update list of the diff reaches
\* the consensus engine, unless the block aborted
ResponseEndBlock(set, panic, list) ==
    IF panic # NoPanic THEN set ELSE ApplyUpdates(set, list, 1)

\* the end of the block: the diff, with the map of the remaining operators
\* enumerated as range
EndBlockIn(range) ==
    /\ InBlock
    /\ LET d == ApplyAndReturnValidatorSetUpdates(Store, Ctx, range)
       IN /\ CommitStore(d.s, "EndBlock")
          /\ queryTime' = 0
          /\ matureValsAddrs' = <<>>
          /\ newVals' = d.newVals
          /\ updates' = d.updates
          /\ consensusSet' = ResponseEndBlock(consensusSet, panicked', updates')
    /\ UNCHANGED <<params, blockTxs, blockHeight, blockTime, txDelivered>>

EndBlock == \E range \in MapRange(DiffBonded(Store, Ctx).last) : EndBlockIn(range)

\* the next block begins: new header, then the begin-of-block drain of the
\* unbonding queue
BeginBlockUpTo(maxTime) ==
    /\ lastCall = "EndBlock"
    /\ panicked = NoPanic
    /\ blockHeight' = blockHeight + 1
    /\ txDelivered' = 0
    /\ \E dt \in 1..MaxBlockInterval :
          /\ blockTime + dt <= maxTime
          /\ blockTime' = blockTime + dt
          /\ LET ctx == [height |-> blockHeight + 1, time |-> blockTime + dt]
                 s == [Store EXCEPT !.intraTxCounter = 0]
             IN Commit(UnbondAllMatureValidatorQueue(s, ctx), "BeginBlock")
    /\ newVals' = <<>>
    /\ updates' = <<>>
    /\ UNCHANGED <<params, blockTxs>>

BeginBlock == BeginBlockUpTo(MaxTime)

Next ==
    \/ CreateValidator
    \/ Delegate
    \/ Undelegate
    \/ Slash
    \/ Jail
    \/ Unjail
    \/ EndBlock
    \/ BeginBlock

Spec == Init /\ [][Next]_vars

\* The chain whose blocks keep coming: an open block is ended, and the next
\* block begins with a later header time, for as long as the chain has not
\* aborted.
\* EndBlock can run whenever the block is open, BeginBlock whenever a block
\* has ended below the last time explored; fairness is stated on these steps.
EndBlockStep == InBlock /\ lastCall' = "EndBlock"

BeginBlockStep ==
    /\ lastCall = "EndBlock"
    /\ panicked = NoPanic
    /\ blockTime < MaxTime
    /\ lastCall' = "BeginBlock"

SpecLive == Spec /\ WF_lastCall(EndBlockStep) /\ WF_lastCall(BeginBlockStep)

\* The same chain with a longer unbonding period, followed for one more block.
InitLong == InitChain(MaxValidators, LongUnbondingTime, 1)

BeginBlockLong == BeginBlockUpTo(LongMaxTime)

NextLong ==
    \/ CreateValidator
    \/ Delegate
    \/ Undelegate
    \/ Slash
    \/ Jail
    \/ Unjail
    \/ EndBlock
    \/ BeginBlockLong

SpecLong == InitLong /\ [][NextLong]_vars

\* The same chain with blocks of several transactions: validators are created,
\* emptied, jailed and unjailed, more than one of them within a block.
InitBusy == InitChain(MaxValidators, UnbondingTime, BusyTxs)

NextBusy ==
    \/ CreateValidator
    \/ Undelegate
    \/ Jail
    \/ Unjail
    \/ EndBlock
    \/ BeginBlock

SpecBusy == InitBusy /\ [][NextBusy]_vars

\* The busy chain without unbond transactions: validators are created,
\* jailed and unjailed, more than one of them within a block.
NextJails ==
    \/ CreateValidator
    \/ Jail
    \/ Unjail
    \/ EndBlock
    \/ BeginBlock

SpecJails == InitBusy /\ [][NextJails]_vars

\* The busy chain under penalties: validators are created, slashed and
\* jailed, a validator possibly slashed and jailed within one block.
BeginBlockPenalty == BeginBlockUpTo(PenaltyMaxTime)

NextPenalty ==
    \/ CreateValidator
    \/ Slash
    \/ Jail
    \/ EndBlock
    \/ BeginBlockPenalty

SpecPenalty == InitBusy /\ [][NextPenalty]_vars

\* The busy chain followed for one more block, with validators created and
\* jailed only: unbondings begun in different blocks mature under one header.
NextQueue ==
    \/ CreateValidator
    \/ Jail
    \/ EndBlock
    \/ BeginBlockLong

SpecQueue == InitBusy /\ [][NextQueue]_vars

\* The chain with commission updates: validators are created and bonded,
\* and their operators ask for new commission rates.
NextCommission ==
    \/ CreateValidator
    \/ EditValidator
    \/ EndBlock
    \/ BeginBlock

SpecCommission == Init /\ [][NextCommission]_vars

\* The chain with queries of the unbonding queue: validators are created
\* and jailed, and the mature part of the queue is asked for.
NextMature ==
    \/ CreateValidator
    \/ Jail
    \/ QueryMatureValidatorQueue
    \/ EndBlock
    \/ BeginBlock

SpecMature == Init /\ [][NextMature]_vars

\* The channel names a caller offers: the first and the last name registered
\* so far, and the first name not yet used.
NamesOffered ==
    LET registered == Cardinality(DOMAIN nameToChannelID)
    IN {1, registered, registered + 1} \cap 1..MaxNames

\* a call of RegisterNewCrossChainChannel
RegisterChannel ==
    /\ \E name \in NamesOffered :
          LET r == RegisterNewCrossChainChannel(CrossChainChannelHub, name)
          IN /\ nameToChannelID' = r.hub.nameToChannelID
             /\ channelIDToName' = r.hub.channelIDToName
             /\ nextChannelID' = r.hub.nextChannelID
             /\ channelName' = name
             /\ channelID' = 0
             /\ channelErr' = r.err
    /\ lastCall' = "RegisterNewCrossChainChannel"
    /\ UNCHANGED chainVars

\* a call of GetChannelID
QueryChannelID ==
    /\ \E name \in NamesOffered :
          LET r == GetChannelID(CrossChainChannelHub, name)
          IN /\ channelName' = name
             /\ channelID' = r.id
             /\ channelErr' = r.err
    /\ lastCall' = "GetChannelID"
    /\ UNCHANGED <<nameToChannelID, channelIDToName, nextChannelID>>
    /\ UNCHANGED chainVars

\* The channel registry of a process: channels are registered and looked up.
NextChannel ==
    \/ RegisterChannel
    \/ QueryChannelID

SpecChannel == Init /\ [][NextChannel]_vars

\* ------------------------------------------------------------ properties
Min(a, b) == IF a < b THEN a ELSE b

BondedOperators(vals) == {op \in DOMAIN vals : vals[op].status = Bonded}

\* the non-jailed validators with non-zero tokens
PositivePower(vals) == {op \in DOMAIN vals : ~vals[op].jailed /\ vals[op].tokens > 0}

\* operators of the first min(MaxValidators, k) entries of a power index
TopOfPowerIndex(idx, vals, maxValidators) ==
    LET it == ReversePrefixIterator(idx)
        n == Min(maxValidators, Cardinality(PositivePower(vals)))
    IN {it[i][4] : i \in 1..Min(n, Len(it))}

\* the end-of-block diff has just returned
DiffReturned == lastCall = "EndBlock" /\ panicked = NoPanic

UpdatesFor(op) == {i \in 1..Len(updates) : updates[i].op = op}

\* C1: after the diff the Bonded validators are the first
\* min(MaxValidators, k) entries of the power index, and none has zero tokens.
C1_BondedAreTopOfIndexAfterCall ==
    DiffReturned =>
        /\ BondedOperators(validators)
             = TopOfPowerIndex(powerIndex, validators, params.maxValidators)
        /\ \A op \in BondedOperators(validators) : validators[op].tokens > 0

\* What the diff does establish: the Bonded validators are the first
\* min(MaxValidators, k) entries of the index as it stood when the call began
\* (bonding re-keys a validator under the current height, so the index the
\* call leaves behind may rank them differently); none has zero tokens, and
\* every other validator Bonded before the call is no longer Bonded.
BondedAreTopOfIndexWalked ==
    [][DiffReturned' =>
         /\ BondedOperators(validators')
              = TopOfPowerIndex(powerIndex, validators, params.maxValidators)
         /\ \A op \in BondedOperators(validators') : validators'[op].tokens > 0
         /\ \A op \in BondedOperators(validators) :
               op \notin TopOfPowerIndex(powerIndex, validators, params.maxValidators)
                  => op \notin BondedOperators(validators')]_vars

\* the cap was binding: a positive-power validator was left out
CapWasBinding ==
    /\ DiffReturned
    /\ Cardinality(BondedOperators(validators)) = params.maxValidators
    /\ \E op \in PositivePower(validators) : validators[op].status = Unbonding

\* C2: after the diff the snapshot has at most MaxValidators entries, its keys
\* are the Bonded operators and its values their bonded power; in every state
\* GetLastValidators finds no more than MaxValidators entries.
GetLastValidatorsPanics(s) == Cardinality(DOMAIN s.lastValidatorPower) > s.params.maxValidators

C2_SnapshotMirrorsBonded ==
    /\ ~GetLastValidatorsPanics(Store)
    /\ DiffReturned =>
          /\ Cardinality(DOMAIN lastValidatorPower) <= params.maxValidators
          /\ DOMAIN lastValidatorPower = BondedOperators(validators)
          /\ \A op \in DOMAIN lastValidatorPower :
                lastValidatorPower[op] = BondedTokens(validators[op])

\* C2 witness: a full snapshot after a diff that dropped one validator and
\* re-priced another.
C2_Witness ==
    /\ DiffReturned
    /\ Cardinality(DOMAIN lastValidatorPower) = params.maxValidators
    /\ \E i \in 1..Len(updates) : updates[i].power = 0
    /\ \E i \in 1..Len(updates) : updates[i].power > 0

\* C3: the returned update list holds at most one record per operator and at
\* most MaxValidators records of non-zero power.
C3_UpdatesUniqueAndCapped ==
    DiffReturned =>
        /\ \A i, j \in 1..Len(updates) : updates[i].op = updates[j].op => i = j
        /\ Cardinality({i \in 1..Len(updates) : updates[i].power > 0}) <= params.maxValidators

\* C3 witness: a list with MaxValidators non-zero records and a removal.
C3_Witness ==
    /\ DiffReturned
    /\ Cardinality({i \in 1..Len(updates) : updates[i].power > 0}) = params.maxValidators
    /\ \E i \in 1..Len(updates) : updates[i].power = 0

\* the candidates the last diff visited and bonded
Visited(op) == op \in Range(newVals)

\* C4 (as stated): a visited candidate yields a consensus-update record and a
\* snapshot overwrite exactly when it was absent from the previous snapshot or
\* its new bonded power differs from the snapshot value.
C4_RecordIffChanged ==
    [][DiffReturned' =>
         \A op \in Range(newVals') :
            LET newPower == BondedTokens(validators'[op])
                changed == op \notin DOMAIN lastValidatorPower
                              \/ lastValidatorPower[op] # newPower
            IN /\ lastValidatorPower'[op] = newPower
               /\ (\E i \in 1..Len(updates') : updates'[i].op = op) <=> changed]_vars

\* C4 (amended): a visited candidate has its snapshot entry set to its new
\* bonded power, and it yields a consensus-update record (one, carrying that
\* power) exactly when it has a consensus public key and it was absent from the
\* previous snapshot or its new bonded power differs from the snapshot value.
C4_RecordIffChangedAndKeyed ==
    [][DiffReturned' =>
         \A op \in Range(newVals') :
            LET newPower == BondedTokens(validators'[op])
                changed == op \notin DOMAIN lastValidatorPower
                              \/ lastValidatorPower[op] # newPower
                records == {i \in 1..Len(updates') : updates'[i].op = op}
            IN /\ lastValidatorPower'[op] = newPower
               /\ (records # {}) <=> (changed /\ HasConsPubKey(validators'[op]))
               /\ \A i \in records : updates'[i].power = newPower]_vars

\* C4 witness: the diff returned a record for one candidate and none for
\* another, which was bonded at the same power before.
C4_Witness ==
    /\ DiffReturned
    /\ \E op \in Range(newVals) : UpdatesFor(op) # {}
    /\ \E op \in Range(newVals) :
          UpdatesFor(op) = {} /\ HasConsPubKey(validators[op])

\* C5: an operator of the previous snapshot that the diff does not visit is
\* taken from Bonded to Unbonding, leaves the snapshot and, with a consensus
\* key, yields exactly one zero-power record; no other operator yields one.
C5_DroppedAreUnbondedAndReported ==
    [][DiffReturned' =>
         /\ \A op \in DOMAIN lastValidatorPower \ Range(newVals') :
               LET zero == {i \in 1..Len(updates') :
                               updates'[i].op = op /\ updates'[i].power = 0}
               IN /\ validators[op].status = Bonded
                  /\ IF op \in DOMAIN validators'
                     THEN validators'[op].status = Unbonding
                     ELSE validators[op].tokens = 0
                  /\ op \notin DOMAIN lastValidatorPower'
                  /\ Cardinality(zero) = IF HasConsPubKey(validators[op]) THEN 1 ELSE 0
         /\ \A i \in 1..Len(updates') :
               updates'[i].power = 0 =>
                  updates'[i].op \in DOMAIN lastValidatorPower \ Range(newVals')]_vars

\* C5 witness: the diff dropped a validator with a consensus key, which is
\* now Unbonding, out of the snapshot and reported with one zero-power record.
C5_Witness ==
    /\ DiffReturned
    /\ \E i \in 1..Len(updates) :
          /\ updates[i].power = 0
          /\ updates[i].op \in DOMAIN validators
          /\ validators[updates[i].op].status = Unbonding
          /\ validators[updates[i].op].unbondingHeight = blockHeight
          /\ updates[i].op \notin DOMAIN lastValidatorPower

\* C6: a jailed validator has no power-index entry, every other validator
\* has one, and the diff never aborts on a jailed validator.
IndexedOperators == {k[4] : k \in powerIndex}

C6_JailedIffNotIndexed ==
    /\ \A op \in DOMAIN validators :
          /\ validators[op].jailed => op \notin IndexedOperators
          /\ (~validators[op].jailed
                /\ ~(validators[op].status = Unbonded /\ validators[op].tokens = 0))
                => op \in IndexedOperators
    /\ panicked # "should never retrieve a jailed validator from the power store"

\* C6 witness: a jailed validator with tokens beside an indexed one, after a diff.
C6_Witness ==
    /\ DiffReturned
    /\ \E op \in DOMAIN validators : validators[op].jailed /\ validators[op].tokens > 0
    /\ \E op \in DOMAIN validators : ~validators[op].jailed /\ op \in IndexedOperators

\* the timeslices that hold op, and how often each holds it
SlicesOf(op) == {t \in DOMAIN validatorQueue : op \in Range(validatorQueue[t])}

TimesIn(op, t) == Cardinality({i \in 1..Len(validatorQueue[t]) : validatorQueue[t][i] = op})

\* op's unbonding is complete: Unbonded, or removed with its last share gone
Completed(vals, op) == op \notin DOMAIN vals \/ vals[op].status = Unbonded

\* C7: a drain completes the unbonding of an Unbonding validator exactly when
\* its block time has reached the validator's unbonding_min_time, and no
\* other step makes an Unbonding validator Unbonded.
C7_CompletesExactlyWhenMature ==
    [][/\ lastCall' = "BeginBlock" =>
            \A op \in DOMAIN validators :
               validators[op].status = Unbonding =>
                  (Completed(validators', op)
                      <=> blockTime' >= validators[op].unbondingMinTime)
       /\ lastCall' # "BeginBlock" =>
            \A op \in DOMAIN validators \cap DOMAIN validators' :
               validators[op].status = Unbonding
                  => validators'[op].status # Unbonded]_vars

\* C8: every Unbonding validator is in exactly one timeslice, the one keyed
\* by its unbonding_min_time, and is there once.
C8_UnbondingInExactlyOneTimeslice ==
    \A op \in DOMAIN validators :
       validators[op].status = Unbonding =>
          /\ SlicesOf(op) = {validators[op].unbondingMinTime}
          /\ TimesIn(op, validators[op].unbondingMinTime) = 1

\* C9: no timeslice holds an operator whose record is removed or whose
\* status is Unbonded.
C9_NoRemovedOrUnbondedInQueue ==
    \A t \in DOMAIN validatorQueue : \A op \in Range(validatorQueue[t]) :
       /\ op \in DOMAIN validators
       /\ validators[op].status # Unbonded

\* C10: right after the begin-of-block drain, a second drain at the same
\* block time returns the store unchanged: no status moved, no validator
\* removed, no hook fired, no abort.
C10_DrainIdempotent ==
    lastCall = "BeginBlock" => UnbondAllMatureValidatorQueue(Store, Ctx) = Store

\* C10 witness: the drain that just ran completed an unbonding and emptied
\* the timeslice of the block time.
C10_Witness ==
    /\ lastCall = "BeginBlock"
    /\ panicked = NoPanic
    /\ blockTime \notin DOMAIN validatorQueue
    /\ \E op \in DOMAIN validators :
          /\ validators[op].status = Unbonded
          /\ validators[op].unbondingMinTime = blockTime

\* the power-index entries of op
IndexEntries(idx, op) == {k \in idx : k[4] = op}

Removed == DOMAIN validators \ DOMAIN validators'

\* C12: a record the diff or the drain deletes has no delegator shares and
\* is Unbonded when it is deleted: the diff deletes only records that were
\* Unbonded, the drain only those or ones whose unbonding it completes.
C12_DeletedOnlyUnbondedWithoutShares ==
    [][lastCall' \in {"EndBlock", "BeginBlock"} =>
         \A op \in Removed :
            /\ validators[op].shares = 0
            /\ \/ validators[op].status = Unbonded
               \/ lastCall' = "BeginBlock" /\ validators[op].status = Unbonding]_vars

\* C13: the diff deletes the record of a no-longer-bonded validator exactly
\* when its delegator shares are zero.
C13_DeletedIffNoShares ==
    [][DiffReturned' =>
         \A op \in DOMAIN lastValidatorPower \ Range(newVals') :
            op \in Removed <=> validators[op].shares = 0]_vars

\* the call aborted and left the store s as it was
AbortedWithoutWrite(s, after) ==
    /\ after.panic # NoPanic
    /\ [after EXCEPT !.panic = NoPanic] = s

\* C14: in every state, each transition function called on a validator whose
\* status or jailed flag does not meet its precondition aborts and leaves
\* the records, the indices, the queue, the pool and the hooks untouched.
C14_MismatchAbortsWithoutWrite ==
    \A op \in DOMAIN validators :
       LET v == validators[op]
       IN /\ v.status # Bonded
               => AbortedWithoutWrite(Store, bondedToUnbonding(Store, Ctx, op, v).s)
          /\ v.status # Unbonding
               => /\ AbortedWithoutWrite(Store, unbondingToBonded(Store, Ctx, op, v).s)
                  /\ AbortedWithoutWrite(Store, unbondingToUnbonded(Store, op, v).s)
          /\ v.status # Unbonded
               => AbortedWithoutWrite(Store, unbondedToBonded(Store, Ctx, op, v).s)
          /\ v.jailed => AbortedWithoutWrite(Store, jailValidator(Store, op, v))
          /\ ~v.jailed => AbortedWithoutWrite(Store, unjailValidator(Store, op, v))

\* C14 witness: a Bonded validator, an Unbonding one that has a power-index
\* entry, and a jailed one, each a mismatch for some transition.
C14_Witness ==
    /\ \E op \in DOMAIN validators : validators[op].status = Bonded
    /\ \E op \in DOMAIN validators :
          validators[op].status = Unbonding /\ op \in IndexedOperators
    /\ \E op \in DOMAIN validators : validators[op].jailed

\* records SetValidator may be handed for op: the stored one, the stored one
\* with a field changed, or a new one
PutCandidates(op) ==
    IF op \in DOMAIN validators
    THEN {validators[op], [validators[op] EXCEPT !.jailed = ~@]}
    ELSE {NewValidator(FALSE), NewValidator(TRUE)}

\* C15: SetValidator stores the record, fires no hook, and afterwards the
\* lookup by the validator's consensus identity returns the record.
C15_PutRefreshesConsIndex ==
    \A op \in Operators : \A v \in PutCandidates(op) :
       LET s1 == SetValidator(Store, op, v)
       IN /\ s1.validators[op] = v
          /\ s1.hooks = <<>>
          /\ GetValidatorByConsAddrFound(s1, op)
          /\ GetValidatorByConsAddr(s1, op) = v

\* C15 (amended): SetValidator stores the record and nothing else: the other
\* records, the consensus-identity index, the power index and the hooks are
\* as before, so the lookup by consensus identity finds the record only if
\* the index entry was there already; SetValidatorByConsAddr writes the
\* entry, and after both the lookup returns the record.
C15_PutWritesRecordOnly ==
    \A op \in Operators : \A v \in PutCandidates(op) :
       LET s1 == SetValidator(Store, op, v)
           s2 == SetValidatorByConsAddr(s1, op)
       IN /\ s1.validators[op] = v
          /\ \A o \in DOMAIN validators \ {op} :
                o \in DOMAIN s1.validators /\ s1.validators[o] = validators[o]
          /\ DOMAIN s1.validators = DOMAIN validators \cup {op}
          /\ s1.consAddrIndex = consAddrIndex
          /\ s1.powerIndex = powerIndex
          /\ s1.hooks = <<>>
          /\ GetValidatorByConsAddrFound(s1, op) <=> op \in DOMAIN consAddrIndex
          /\ GetValidatorByConsAddrFound(s2, op)
          /\ GetValidatorByConsAddr(s2, op) = v

\* C15 witness: a validator was just created, its record and its index entry
\* written by the two calls, while another operator has neither.
C15_Witness ==
    /\ lastCall = "CreateValidator"
    /\ \E op \in DOMAIN validators : GetValidatorByConsAddrFound(Store, op)
    /\ \E op \in Operators : op \notin DOMAIN validators /\ op \notin DOMAIN consAddrIndex

\* C16: in every state, RemoveValidator on an existing validator leaves no
\* record, no consensus-identity entry and no power-index entry of that
\* operator; on an unknown operator it changes nothing.
C16_RemoveDeletesRecordAndIndices ==
    \A op \in Operators :
       LET s1 == RemoveValidator(Store, op)
       IN IF op \in DOMAIN validators
          THEN /\ ~GetValidatorFound(s1, op)
               /\ ~GetValidatorByConsAddrFound(s1, op)
               /\ op \notin DOMAIN s1.consAddrIndex
               /\ IndexEntries(s1.powerIndex, op) = {}
          ELSE s1 = Store

\* C16 witness: the diff has removed a validator it had just queued, which
\* is left without record and index entries, beside an indexed validator.
C16_Witness ==
    /\ DiffReturned
    /\ \E op \in Operators :
          /\ SlicesOf(op) # {}
          /\ op \notin DOMAIN validators
          /\ op \notin DOMAIN consAddrIndex
          /\ IndexEntries(powerIndex, op) = {}
    /\ \E op \in DOMAIN validators : IndexEntries(powerIndex, op) # {}

\* the calls of the removed hook for op in the last operation
RemovedHookCalls(log, op) ==
    {i \in 1..Len(log) : log[i][1] = "hooks" /\ log[i][2] = "removed" /\ log[i][3] = op}

\* C17: the diff and the drain fire the removed hook exactly once for every
\* record they delete.
C17_RemovalFiresRemovedHook ==
    [][lastCall' \in {"EndBlock", "BeginBlock"} =>
         \A op \in Removed : Cardinality(RemovedHookCalls(hookLog', op)) = 1]_vars

\* C18: a side-chain validator yields no record in the update list of a
\* diff, whether it is bonded, re-priced or dropped by it, while the diff
\* bonds it and writes its snapshot entry, or unbonds it and deletes the
\* entry, like any other validator.
C18_SideChainNeverReported ==
    [][DiffReturned' =>
         \A op \in DOMAIN validators :
            IsSideChainValidator(validators[op]) =>
               /\ \A i \in 1..Len(updates') : updates'[i].op # op
               /\ op \in Range(newVals') =>
                     /\ op \in DOMAIN validators'
                     /\ validators'[op].status = Bonded
                     /\ op \in DOMAIN lastValidatorPower'
                     /\ lastValidatorPower'[op] = BondedTokens(validators'[op])
               /\ (op \in DOMAIN lastValidatorPower /\ op \notin Range(newVals')) =>
                     /\ op \notin DOMAIN lastValidatorPower'
                     /\ Completed(validators', op)
                           \/ validators'[op].status = Unbonding]_vars

\* C18 witness: the diff has just bonded a side-chain validator and written
\* its snapshot entry without reporting it.
C18_Witness ==
    /\ DiffReturned
    /\ \E op \in DOMAIN validators :
          /\ IsSideChainValidator(validators[op])
          /\ validators[op].status = Bonded
          /\ validators[op].bondHeight = blockHeight
          /\ op \in Range(newVals)
          /\ op \in DOMAIN lastValidatorPower
          /\ UpdatesFor(op) = {}

\* the operators a diff has just moved out of the bonded set
DroppedNow ==
    {op \in Operators :
        /\ op \notin DOMAIN lastValidatorPower
        /\ \/ op \notin DOMAIN validators
           \/ /\ validators[op].status = Unbonding
              /\ validators[op].unbondingHeight = blockHeight}

\* C19: whatever order the map of the remaining operators is enumerated
\* in, ApplyAndReturnValidatorSetUpdates leaves the same store, the same
\* hook calls, the same bonded list and the same update list.
C19_DiffSameForEveryMapOrder ==
    [][lastCall' = "EndBlock" =>
         \A range \in MapRange(DiffBonded(Store, Ctx).last) : EndBlockIn(range)]_vars

\* C19 witness: a diff has returned two zero-power records, for two
\* operators it dropped in the same call.
C19_Witness ==
    /\ DiffReturned
    /\ \E a, b \in DroppedNow :
          /\ a # b
          /\ UpdatesFor(a) # {}
          /\ UpdatesFor(b) # {}

\* validator va of operator a ranks before validator vb of operator b:
\* more power, then the lower bond height, then the lower intra-tx
\* counter, then the lower operator address
RankBefore(va, a, vb, b) ==
    \/ va.tokens > vb.tokens
    \/ va.tokens = vb.tokens /\ va.bondHeight < vb.bondHeight
    \/ va.tokens = vb.tokens /\ va.bondHeight = vb.bondHeight /\ va.counter < vb.counter
    \/ /\ va.tokens = vb.tokens
       /\ va.bondHeight = vb.bondHeight
       /\ va.counter = vb.counter
       /\ a < b

\* the operators of list are in rank order when their records are those of vals
Ranked(list, vals) ==
    \A i, j \in 1..Len(list) :
       i < j => /\ list[i] \in DOMAIN vals
                /\ list[j] \in DOMAIN vals
                /\ RankBefore(vals[list[i]], list[i], vals[list[j]], list[j])

\* the operators in the order the reverse iterator of the power index meets them
IteratedOperators(idx) ==
    LET iterator == ReversePrefixIterator(idx)
    IN [n \in 1..Len(iterator) |-> iterator[n][4]]

\* the list GetBondedValidatorsByPower returns is in rank order of the records
BondedByPowerRanked ==
    LET r == GetBondedValidatorsByPower(Store)
    IN r.panic = NoPanic /\ Ranked(r.validators, validators)

JailedBonded(vals) == {op \in DOMAIN vals : vals[op].jailed /\ vals[op].status = Bonded}

\* jailValidator has left the tokens and the status of every validator as they were
JailKeepsTokensAndStatus ==
    lastCall' = "Jail" /\ panicked' = NoPanic =>
       /\ DOMAIN validators' = DOMAIN validators
       /\ \A op \in DOMAIN validators :
             /\ validators'[op].tokens = validators[op].tokens
             /\ validators'[op].status = validators[op].status
       /\ \E op \in DOMAIN validators : ~validators[op].jailed /\ validators'[op].jailed

\* the diff has passed over the jailed Bonded validator op: not returned, out
\* of the snapshot, one zero-power record if it has a consensus key
JailedPassedOver(op) ==
    /\ panicked' = NoPanic
    /\ op \notin Range(newVals')
    /\ op \notin DOMAIN lastValidatorPower'
    /\ LET recs == {i \in 1..Len(updates') : updates'[i].op = op}
       IN IF HasConsPubKey(validators[op])
          THEN Cardinality(recs) = 1 /\ \A i \in recs : updates'[i].power = 0
          ELSE recs = {}

\* C21: jailValidator changes neither tokens nor status, and the
\* next diff passes over a validator that is Bonded and in jail, whatever
\* its power: it is Unbonding after the call, out of the snapshot, and has a
\* zero-power record if it has a consensus key.
C21_JailedBondedEndsUnbonding ==
    [][/\ JailKeepsTokensAndStatus
       /\ lastCall' = "EndBlock" =>
             \A op \in JailedBonded(validators) :
                /\ JailedPassedOver(op)
                /\ op \in DOMAIN validators'
                /\ validators'[op].status = Unbonding]_vars

\* C22: for every validator and every new rate, UpdateValidatorCommission
\* does not abort; with a rate the validation rejects it returns that error
\* and the validator's commission as it was, and leaves the store as it was;
\* with a rate the validation accepts it returns no error and the commission
\* with the new rate and the block time as its update time.
C22_CommissionErrorOrUpdated ==
    \A op \in DOMAIN validators : \A newRate \in Rates :
       LET validator == validators[op]
           err == ValidateNewRate(validator.commission, newRate, blockTime)
           r == UpdateValidatorCommission(Store, Ctx, validator, newRate)
       IN /\ r.s.panic = NoPanic
          /\ IF err # Nil
             THEN /\ r.err = err
                  /\ r.commission = validator.commission
                  /\ r.s = Store
             ELSE /\ r.err = Nil
                  /\ r.commission.rate = newRate
                  /\ r.commission.updateTime = blockTime
                  /\ r.commission.maxRate = validator.commission.maxRate
                  /\ r.commission.maxChangeRate = validator.commission.maxChangeRate

\* C22 witness: an edit-validator transaction has just stored a new rate with
\* the block time, so that a further update is now rejected as too early,
\* while another validator may still be given a valid or an invalid rate.
C22_Witness ==
    /\ lastCall = "EditValidator"
    /\ \E op \in DOMAIN validators :
          /\ validators[op].commission.rate > 0
          /\ validators[op].commission.updateTime = blockTime
          /\ \A newRate \in Rates :
                ValidateNewRate(validators[op].commission, newRate, blockTime) # Nil
    /\ \E op \in DOMAIN validators : \E ok, bad \in Rates :
          /\ ValidateNewRate(validators[op].commission, ok, blockTime) = Nil
          /\ ValidateNewRate(validators[op].commission, bad, blockTime)
                = "ErrCommissionGTMaxChangeRate"

\* the tokens of the Bonded validators of vals
BondedTokensOf(vals) ==
    SumOver([op \in DOMAIN vals |-> vals[op].tokens], BondedOperators(vals))

\* C23: after every diff the bonded tokens of the pool are the sum of the
\* tokens of the Bonded validators.
C23_PoolIsSumOfBonded == DiffReturned => pool = BondedTokensOf(validators)

\* C23 witness: after a diff that followed a slash, a Bonded validator with
\* tokens stands next to a validator that is not Bonded and has tokens too.
C23_Witness ==
    /\ DiffReturned
    /\ pool > 0
    /\ \E a, b \in DOMAIN validators :
          /\ validators[a].status = Bonded
          /\ validators[a].tokens < validators[a].shares
          /\ validators[b].status # Bonded
          /\ validators[b].tokens > 0

\* C24: every entry of the power index is the key derived from the stored
\* record of its operator, so that no operator has two entries and none is
\* left behind for a removed validator or an earlier power.
C24_IndexEntriesAreCurrent ==
    /\ \A key \in powerIndex :
          /\ key[4] \in DOMAIN validators
          /\ key = GetValidatorsByPowerIndexKey(key[4], validators[key[4]])
    /\ \A op \in Operators : Cardinality(IndexEntries(powerIndex, op)) <= 1

\* C24 witness: a validator bonded at a later height has had its tokens
\* changed and holds its entry, beside a validator removed from the store.
C24_Witness ==
    /\ lastCall \in {"Slash", "Delegate", "Undelegate"}
    /\ \E op \in DOMAIN validators :
          /\ validators[op].bondHeight > 0
          /\ validators[op].tokens # validators[op].shares
          /\ IndexEntries(powerIndex, op) # {}
    /\ \E op \in Operators : op \notin DOMAIN validators /\ SlicesOf(op) # {}

\* the validators whose tokens the step has changed, the new ones included
TokensChanged ==
    {op \in DOMAIN validators' :
        op \notin DOMAIN validators \/ validators'[op].tokens # validators[op].tokens}

\* C25: every transaction that adds tokens to a validator or removes tokens
\* from it stamps the validator with the stored intra-tx counter and
\* increments the stored counter, so that a later mutation of the block
\* holds a greater counter.
C25_TokenMutationTakesFreshCounter ==
    [][lastCall' \in {"CreateValidator", "Delegate", "Undelegate", "Slash"}
          /\ panicked' = NoPanic =>
             /\ intraTxCounter' = intraTxCounter + 1
             /\ \A op \in TokensChanged : validators'[op].counter = intraTxCounter]_vars

\* the operators listed in the timeslices of queue keyed by a time in times
ListedIn(queue, times) == UNION {Range(queue[t]) : t \in times \cap DOMAIN queue}

\* C26: a drain at block time now meets the timeslices keyed up to and
\* including now in ascending order and deletes them all; it leaves every
\* later timeslice as it was, adds none, and leaves the record and the index
\* entries of every validator listed only in later timeslices as they were.
C26_DrainDeletesMatureOnly ==
    [][lastCall' = "BeginBlock" =>
         LET now == blockTime'
             mature == {t \in DOMAIN validatorQueue : t <= now}
             later == DOMAIN validatorQueue \ mature
             iterator == ValidatorQueueIterator(Store, now)
         IN /\ Range(iterator) = mature
            /\ \A i, j \in 1..Len(iterator) : i < j => iterator[i] < iterator[j]
            /\ DOMAIN validatorQueue' = later
            /\ \A t \in later : validatorQueue'[t] = validatorQueue[t]
            /\ \A op \in ListedIn(validatorQueue, later) \ ListedIn(validatorQueue, mature) :
                  /\ (op \in DOMAIN validators) = (op \in DOMAIN validators')
                  /\ op \in DOMAIN validators => validators'[op] = validators[op]
                  /\ IndexEntries(powerIndex', op) = IndexEntries(powerIndex, op)]_vars

\* C26 witness: one drain has gone through two timeslices, the second keyed
\* by the block time, and completed the unbonding begun two blocks ago and
\* the one begun in the last block.
C26_Witness ==
    /\ lastCall = "BeginBlock"
    /\ panicked = NoPanic
    /\ validatorQueue = EmptyMap
    /\ \E a, b \in DOMAIN validators :
          /\ validators[a].status = Unbonded
          /\ validators[b].status = Unbonded
          /\ validators[a].unbondingHeight = blockHeight - 2
          /\ validators[b].unbondingHeight = blockHeight - 1
          /\ validators[a].unbondingMinTime = blockTime - 1
          /\ validators[b].unbondingMinTime = blockTime

\* C27: in the update list a diff returns, the records of the validators it
\* returns as bonded come first, with their power, in the rank order the
\* power index held them in when the call began; the zero-power records of
\* the removals follow, in ascending order of the operator address.
C27_UpdatesChangesThenRemovals ==
    [][DiffReturned' =>
         \A i, j \in 1..Len(updates') :
            LET a == updates'[i].op
                b == updates'[j].op
            IN /\ (a \in Range(newVals')) = (updates'[i].power > 0)
               /\ i < j =>
                    IF a \in Range(newVals')
                    THEN b \in Range(newVals')
                            => RankBefore(validators[a], a, validators[b], b)
                    ELSE b \notin Range(newVals') /\ a < b]_vars

\* C27 witness: a diff has returned the record of a validator it bonded
\* followed by the zero-power records of two validators it dropped.
C27_Witness ==
    /\ DiffReturned
    /\ Len(updates) = 3
    /\ updates[1].power > 0
    /\ updates[2].power = 0
    /\ updates[3].power = 0
    /\ updates[2].op < updates[3].op

\* C28: a diff that returns updates stores as total power the sum of the
\* bonded tokens of the validators it returns as bonded; a diff that returns
\* no update leaves the stored total power as it was.
C28_TotalPowerWrittenIffUpdates ==
    [][DiffReturned' =>
         IF Len(updates') > 0
         THEN lastTotalPower' =
                 SumOver([op \in Range(newVals') |-> BondedTokens(validators'[op])],
                         Range(newVals'))
         ELSE lastTotalPower' = lastTotalPower]_vars

\* C28 witness: a diff without updates has bonded a validator and left the
\* stored total power below the bonded tokens.
C28_Witness ==
    /\ DiffReturned
    /\ updates = <<>>
    /\ newVals # <<>>
    /\ lastTotalPower < BondedTokensOf(validators)
    /\ lastTotalPower > 0

\* the calls of the named hooks that the combined hooks have received for op
HookCalls(log, names, op) ==
    {i \in 1..Len(log) : log[i][1] = "hooks" /\ log[i][2] \in names /\ log[i][3] = op}

\* the calls of the named hook that subscriber has received for op
SubscriberCalls(log, subscriber, name, op) ==
    {i \in 1..Len(log) : log[i][1] = subscriber /\ log[i][2] = name /\ log[i][3] = op}

\* the validators a diff takes through the Bonded -> Unbonding transition
BeganUnbonding ==
    {op \in BondedOperators(validators) :
        op \notin DOMAIN validators' \/ validators'[op].status = Unbonding}

\* C29: every validator a diff takes from Bonded to Unbonding is Unbonding
\* with unbonding_min_time = block time + unbonding period and
\* unbonding_height = block height; the timeslice of that time is what it was
\* followed by these operators, each once, the other timeslices are as they
\* were; and the begin-unbonding hook is called once for each of them and for
\* no other validator.
C29_BeginUnbondingStampsQueuesAndNotifies ==
    [][DiffReturned' =>
         LET minTime == blockTime + params.unbondingTime
             before == GetValidatorQueueTimeSlice(Store, minTime)
             after == IF minTime \in DOMAIN validatorQueue'
                      THEN validatorQueue'[minTime] ELSE <<>>
         IN /\ \A op \in BondedOperators(validators) \cap DOMAIN validators' :
                  validators'[op].status \in {Bonded, Unbonding}
            /\ \A op \in BeganUnbonding :
                  /\ op \in DOMAIN validators' =>
                        /\ validators'[op].unbondingMinTime = minTime
                        /\ validators'[op].unbondingHeight = blockHeight
                  /\ Cardinality({i \in 1..Len(after) : after[i] = op}) =
                        Cardinality({i \in 1..Len(before) : before[i] = op}) + 1
            /\ Len(after) = Len(before) + Cardinality(BeganUnbonding)
            /\ SubSeq(after, 1, Len(before)) = before
            /\ \A t \in (DOMAIN validatorQueue \cup DOMAIN validatorQueue') \ {minTime} :
                  /\ t \in DOMAIN validatorQueue
                  /\ t \in DOMAIN validatorQueue'
                  /\ validatorQueue'[t] = validatorQueue[t]
            /\ \A op \in Operators :
                  Cardinality(HookCalls(hookLog', {"beginUnbonding", "sideChainBeginUnbonding"}, op))
                     = IF op \in BeganUnbonding THEN 1 ELSE 0]_vars

\* C29 witness: a diff has taken two validators to Unbonding, and the
\* timeslice of their unbonding_min_time holds the one after the other.
C29_Witness ==
    /\ DiffReturned
    /\ blockTime + params.unbondingTime \in DOMAIN validatorQueue
    /\ LET timeslice == validatorQueue[blockTime + params.unbondingTime]
       IN /\ Len(timeslice) = 2
          /\ timeslice[1] # timeslice[2]
          /\ \A i \in 1..2 :
                /\ timeslice[i] \in DOMAIN validators
                /\ validators[timeslice[i]].status = Unbonding
                /\ validators[timeslice[i]].unbondingHeight = blockHeight
                /\ HookCalls(hookLog, {"beginUnbonding", "sideChainBeginUnbonding"},
                             timeslice[i]) # {}

\* the bonded hooks
BondedHooks == {"bonded", "sideChainBonded"}

\* distribution, then slashing, have each been told once that op is bonded
BothSubscribersToldBonded(log, op) ==
    /\ Cardinality(SubscriberCalls(log, "distr", "bonded", op)) = 1
    /\ Cardinality(SubscriberCalls(log, "slashing", "bonded", op)) = 1
    /\ \A i \in SubscriberCalls(log, "distr", "bonded", op) :
          \A j \in SubscriberCalls(log, "slashing", "bonded", op) : i < j

\* no subscriber has been told that op is bonded
NoSubscriberToldBonded(log, op) ==
    /\ SubscriberCalls(log, "distr", "bonded", op) = {}
    /\ SubscriberCalls(log, "slashing", "bonded", op) = {}

\* C30 (as stated): a validator the diff takes to Bonded gets bond_height =
\* block height, and distribution, then slashing, are each told once that it
\* is bonded; a candidate that was Bonded keeps its bond_height and no bonded
\* hook is called for it; the drain, which completes unbondings, calls no hook.
C30_BondedStampsAndTellsSubscribers ==
    [][/\ DiffReturned' =>
            \A op \in Operators :
               IF op \in Range(newVals') /\ validators[op].status # Bonded
               THEN /\ validators'[op].status = Bonded
                    /\ validators'[op].bondHeight = blockHeight
                    /\ Cardinality(HookCalls(hookLog', BondedHooks, op)) = 1
                    /\ BothSubscribersToldBonded(hookLog', op)
               ELSE /\ HookCalls(hookLog', BondedHooks, op) = {}
                    /\ NoSubscriberToldBonded(hookLog', op)
                    /\ op \in Range(newVals') =>
                          validators'[op].bondHeight = validators[op].bondHeight
       /\ lastCall' = "BeginBlock" => hookLog' = <<>>]_vars

\* C30 (amended): as above, but distribution and slashing are told only of a
\* validator with a consensus key; for a side-chain validator the side-chain
\* bonded hook is called once, and it tells no subscriber.
C30_BondedStampsAndCallsItsHook ==
    [][/\ DiffReturned' =>
            \A op \in Operators :
               IF op \in Range(newVals') /\ validators[op].status # Bonded
               THEN /\ validators'[op].status = Bonded
                    /\ validators'[op].bondHeight = blockHeight
                    /\ Cardinality(HookCalls(hookLog', BondedHooks, op)) = 1
                    /\ IF IsSideChainValidator(validators[op])
                       THEN /\ HookCalls(hookLog', {"sideChainBonded"}, op) # {}
                            /\ NoSubscriberToldBonded(hookLog', op)
                       ELSE /\ HookCalls(hookLog', {"bonded"}, op) # {}
                            /\ BothSubscribersToldBonded(hookLog', op)
               ELSE /\ HookCalls(hookLog', BondedHooks, op) = {}
                    /\ NoSubscriberToldBonded(hookLog', op)
                    /\ op \in Range(newVals') =>
                          validators'[op].bondHeight = validators[op].bondHeight
       /\ lastCall' = "BeginBlock" => hookLog' = <<>>]_vars

\* C30 witness: a diff has bonded a side-chain validator at the block height
\* through the side-chain hook, beside a candidate bonded at an earlier
\* height that it has left alone.
C30_Witness ==
    /\ DiffReturned
    /\ \E side, old \in Range(newVals) :
          /\ IsSideChainValidator(validators[side])
          /\ validators[side].bondHeight = blockHeight
          /\ HookCalls(hookLog, {"sideChainBonded"}, side) # {}
          /\ ~IsSideChainValidator(validators[old])
          /\ validators[old].bondHeight < blockHeight
          /\ HookCalls(hookLog, BondedHooks, old) = {}

\* the timeslices of queue with a key up to time, concatenated in ascending
\* order of their keys
RECURSIVE Concatenated(_, _, _)
Concatenated(queue, keys, i) ==
    IF i > Len(keys) THEN <<>>
    ELSE queue[keys[i]] \o Concatenated(queue, keys, i + 1)

MatureUpTo(queue, time) == {t \in DOMAIN queue : t <= time}

\* C31: GetAllMatureValidatorQueue(currTime) returns the timeslices maturing
\* up to currTime, concatenated in ascending time order, and deletes those
\* timeslices from the queue.
C31_MatureReturnedAndDeleted ==
    [][lastCall' = "GetAllMatureValidatorQueue" =>
         /\ matureValsAddrs'
              = Concatenated(validatorQueue,
                             SortAscending(MatureUpTo(validatorQueue, queryTime')), 1)
         /\ DOMAIN validatorQueue'
              = DOMAIN validatorQueue \ MatureUpTo(validatorQueue, queryTime')]_vars

\* the status changes of the four transition functions
StatusEdges == {<<Unbonded, Bonded>>, <<Unbonding, Bonded>>,
                <<Bonded, Unbonding>>, <<Unbonding, Unbonded>>}

\* C32: the status of a stored validator changes only Unbonded->Bonded,
\* Unbonding->Bonded, Bonded->Unbonding or Unbonding->Unbonded; jailValidator
\* and unjailValidator change the status and the tokens of no validator and
\* leave the unbonding queue as it was.
C32_StatusFollowsEdges ==
    [][/\ \A op \in DOMAIN validators \cap DOMAIN validators' :
             validators'[op].status # validators[op].status =>
                <<validators[op].status, validators'[op].status>> \in StatusEdges
       /\ lastCall' \in {"Jail", "Unjail"} =>
             /\ DOMAIN validators' = DOMAIN validators
             /\ \A op \in DOMAIN validators :
                   /\ validators'[op].status = validators[op].status
                   /\ validators'[op].tokens = validators[op].tokens
             /\ validatorQueue' = validatorQueue]_vars

\* C32 witness: a validator has been unjailed while Unbonding: it is still
\* Unbonding, holds its tokens and is still listed in the unbonding queue.
C32_Witness ==
    /\ lastCall = "Unjail"
    /\ panicked = NoPanic
    /\ \E op \in DOMAIN validators :
          /\ validators[op].status = Unbonding
          /\ ~validators[op].jailed
          /\ validators[op].tokens > 0
          /\ op \in ListedIn(validatorQueue, {validators[op].unbondingMinTime})

IsUnbonding(vals, op) == op \in DOMAIN vals /\ vals[op].status = Unbonding

\* every Unbonding validator is listed in the timeslice keyed by its
\* unbonding_min_time
UnbondingIsQueued ==
    \A op \in DOMAIN validators :
       validators[op].status = Unbonding =>
          op \in ListedIn(validatorQueue, {validators[op].unbondingMinTime})

\* a drain at a block time that has reached the unbonding_min_time of an
\* Unbonding validator completes its unbonding, and removes it if it has no
\* shares
DrainReleasesMature ==
    lastCall' = "BeginBlock" /\ panicked' = NoPanic =>
       \A op \in DOMAIN validators :
          validators[op].status = Unbonding
          /\ validators[op].unbondingMinTime <= blockTime' =>
             IF validators[op].shares = 0
             THEN op \notin DOMAIN validators'
             ELSE op \in DOMAIN validators' /\ validators'[op].status = Unbonded

\* C33: while blocks keep coming, every validator that is Unbonding with an
\* unbonding_min_time within the time explored eventually is Unbonding no
\* longer: the first drain whose block time has reached its unbonding_min_time
\* makes it Unbonded, or removes it if it has no shares, unless it left
\* Unbonding before; and every Unbonding validator has the queue entry that
\* will release it.
C33_UnbondingEventuallyLeaves ==
    /\ []UnbondingIsQueued
    /\ [][DrainReleasesMature]_vars
    /\ \A op \in Operators :
          (IsUnbonding(validators, op) /\ validators[op].unbondingMinTime <= MaxTime)
             ~> ~IsUnbonding(validators, op)

\* C33 witness: the drain of this block has completed the unbonding of a
\* validator whose unbonding_min_time the block time has reached.
C33_Witness ==
    /\ lastCall = "BeginBlock"
    /\ panicked = NoPanic
    /\ \E op \in DOMAIN validators :
          /\ validators[op].status = Unbonded
          /\ validators[op].unbondingHeight > 0
          /\ validators[op].unbondingMinTime <= blockTime
          /\ \A t \in DOMAIN validatorQueue : t > blockTime

\* C34: after every diff the stored last total power is the sum of the powers
\* stored in the last-bonded snapshot, also when the bonded set has changed
\* only through validators without a consensus key.
C34_TotalPowerIsSumOfSnapshot ==
    DiffReturned =>
       lastTotalPower = SumOver(lastValidatorPower, DOMAIN lastValidatorPower)

\* the snapshot restricted to the validators that have a consensus key
SnapshotWithConsKey(snapshot, vals) ==
    [op \in {o \in DOMAIN snapshot : o \in DOMAIN vals /\ HasConsPubKey(vals[o])}
        |-> snapshot[op]]

\* C35: the validator set the consensus engine builds from the empty set by
\* applying every returned update list in emission order is, after each
\* block, the last-bonded snapshot restricted to the validators with a
\* consensus key, with the same powers.
C35_ConsensusSetRefinesSnapshot ==
    DiffReturned => consensusSet = SnapshotWithConsKey(lastValidatorPower, validators)

\* C35 witness: over the blocks the consensus engine has been sent a
\* validator that is still bonded and, in the last list, the removal of
\* another; a bonded side-chain validator is in the snapshot and not in its
\* set.
C35_Witness ==
    /\ DiffReturned
    /\ \E i \in 1..Len(updates) :
          updates[i].power = 0 /\ updates[i].op \notin DOMAIN consensusSet
    /\ \E op \in DOMAIN consensusSet : UpdatesFor(op) = {}
    /\ \E side \in DOMAIN lastValidatorPower :
          /\ IsSideChainValidator(validators[side])
          /\ side \notin DOMAIN consensusSet

\* the two tables of the channel registry are mutual inverses, and no
\* registered name has the ID 0; two names that String() gives back from
\* their IDs have different IDs
TablesAreInverses ==
    /\ \A name \in DOMAIN nameToChannelID :
          /\ nameToChannelID[name] # 0
          /\ String(CrossChainChannelHub, nameToChannelID[name]) = name
    /\ \A id \in DOMAIN channelIDToName :
          /\ channelIDToName[id] \in DOMAIN nameToChannelID
          /\ nameToChannelID[channelIDToName[id]] = id

\* C36: after any number of registrations the name->ID and ID->name tables
\* are mutual inverses, every registered name having a distinct non-zero ID
\* that String() turns back into the name; registering a registered name
\* returns an error and changes neither table nor the next ID, a new name is
\* registered without error and keeps its ID afterwards; GetChannelID of an
\* unregistered name returns an error.
C36_ChannelTablesStayInverses ==
    /\ []TablesAreInverses
    /\ [][/\ lastCall' = "RegisterNewCrossChainChannel" =>
               IF channelName' \in DOMAIN nameToChannelID
               THEN /\ channelErr' # Nil
                    /\ UNCHANGED <<nameToChannelID, channelIDToName, nextChannelID>>
               ELSE /\ channelErr' = Nil
                    /\ channelName' \in DOMAIN nameToChannelID'
          /\ \A name \in DOMAIN nameToChannelID :
                /\ name \in DOMAIN nameToChannelID'
                /\ nameToChannelID'[name] = nameToChannelID[name]
          /\ lastCall' = "GetChannelID" =>
               IF channelName' \in DOMAIN nameToChannelID
               THEN channelErr' = Nil /\ channelID' = nameToChannelID[channelName']
               ELSE channelErr' # Nil]_vars

====
